---- MODULE Spec2Model ----
(***************************************************************************)
(* Model of the graal range algorithm library (src/include/graal.h).       *)
(*                                                                         *)
(* One storage array `mem` holds the elements.  A position (iterator) is   *)
(* an index 1..Len(mem)+1, Len(mem)+1 being one past the storage.  Every   *)
(* algorithm is called on a range [first, last) of that storage and runs   *)
(* one loop iteration per action, exactly as its code is written.          *)
(***************************************************************************)
EXTENDS Integers, Sequences, FiniteSets

\* ---------------------------------------------------------------- bounds
MaxLen == 4
MaxVal == 3

Vals == 1..MaxVal
NoPos == 0

\* ------------------------------------------------------------- callables
\* The callables a caller passes: unary predicates, comparators, equality
\* functors.  Each is named by a string and applied by the operators below.
Preds == {"isEven", "isOdd"}
Cmps  == {"less", "greater", "lessHalf"}
Eqs   == {"eq", "sameParity"}

p(f, x) ==
  IF f = "isEven" THEN x % 2 = 0 ELSE x % 2 = 1

cmp(f, a, b) ==
  CASE f = "less"     -> a < b
    [] f = "greater"  -> a > b
    [] OTHER          -> (a \div 2) < (b \div 2)

eq(f, a, b) ==
  IF f = "eq" THEN a = b ELSE (a % 2) = (b % 2)

\* ----------------------------------------------------------------- state
VARIABLES
  mem,      \* the storage the iterators point into
  orig,     \* the storage before any call
  entry,    \* the storage when the running call was entered
  hist,     \* the calls already completed: <<[op, arg]>>
  pc,       \* "idle", a loop label of the running algorithm, "done", "crashed"
  op,       \* the algorithm called
  arg,      \* its arguments as passed
  first, last, first2, d_first, it, min_it, max_it, result,  \* its locals
  ret,      \* its return value
  evals,    \* positions on which the predicate was evaluated, in order
  reads,    \* positions dereferenced through first/last/it/min_it/max_it/result
  reads2,   \* positions dereferenced through first2
  writes,   \* positions written
  swaps     \* number of swaps performed by the running call

locals == <<first, last, first2, d_first, it, min_it, max_it, result>>
logs   == <<evals, reads, reads2, writes, swaps>>
vars   == <<mem, orig, entry, hist, pc, op, arg, locals, ret, logs>>

End == Len(mem) + 1
Positions == 1..End

Args(f, l, f2, l2, d, fn) ==
  [first |-> f, last |-> l, first2 |-> f2, last2 |-> l2, d_first |-> d, f |-> fn]

Init ==
  /\ mem \in UNION {[1..n -> Vals] : n \in 0..MaxLen}
  /\ orig = mem
  /\ entry = mem
  /\ hist = <<>>
  /\ pc = "idle"
  /\ op = "none"
  /\ arg = Args(NoPos, NoPos, NoPos, NoPos, NoPos, "none")
  /\ first = NoPos /\ last = NoPos /\ first2 = NoPos /\ d_first = NoPos
  /\ it = NoPos /\ min_it = NoPos /\ max_it = NoPos /\ result = NoPos
  /\ ret = "none"
  /\ evals = <<>>
  /\ reads = {} /\ reads2 = {} /\ writes = {}
  /\ swaps = 0

\* Entering a call: records the arguments and starts with empty logs.
Enter(name, a) ==
  /\ op' = name
  /\ arg' = a
  /\ entry' = mem
  /\ hist' = IF pc = "idle" THEN hist ELSE Append(hist, [op |-> op, arg |-> arg])
  /\ UNCHANGED orig

\* The part of a call's entry every algorithm shares: the range and fresh logs.
StartCall(f, l) ==
  /\ first' = f /\ last' = l
  /\ evals' = <<>> /\ reads' = {} /\ reads2' = {} /\ writes' = {} /\ swaps' = 0

Swap(s, i, j) == [s EXCEPT ![i] = s[j], ![j] = s[i]]

\* ---------------------------------------------------------------- minmax
CallMinmax(f, l, c) ==
  /\ pc = "idle"
  /\ Enter("minmax", Args(f, l, NoPos, NoPos, NoPos, c))
  /\ StartCall(f, l)
  /\ UNCHANGED <<mem, first2, d_first, result>>
  /\ IF f = l
       THEN /\ ret' = <<f, f>>
            /\ pc' = "done"
            /\ UNCHANGED <<it, min_it, max_it>>
       ELSE /\ min_it' = f /\ max_it' = f /\ it' = f
            /\ pc' = "minmax_for"
            /\ UNCHANGED ret

\* (mutant) the comparator's arguments swapped.
NewMin_swapped == cmp(arg.f, mem[min_it], mem[it])

\* (mutant) the maximum without its position tie-break.
NewMax_noTie == cmp(arg.f, mem[max_it], mem[it])

NewMin == cmp(arg.f, mem[it], mem[min_it])
            \/ (~cmp(arg.f, mem[min_it], mem[it]) /\ it < min_it)

NewMax == cmp(arg.f, mem[max_it], mem[it])
            \/ (~cmp(arg.f, mem[it], mem[max_it]) /\ it > max_it)

MinmaxStep ==
  /\ pc = "minmax_for"
  /\ IF it # last
       THEN /\ min_it' = IF NewMin THEN it ELSE min_it
            /\ max_it' = IF NewMax THEN it ELSE max_it
            /\ reads' = reads \cup {it, min_it, max_it}
            /\ it' = it + 1
            /\ UNCHANGED <<pc, ret>>
       ELSE /\ ret' = <<min_it, max_it>>
            /\ pc' = "done"
            /\ UNCHANGED <<it, min_it, max_it, reads>>
  /\ UNCHANGED <<mem, orig, entry, hist, op, arg, first, last, first2, d_first,
                 result, evals, reads2, writes, swaps>>

\* --------------------------------------------------------------- reverse
StartReverse(f, l) ==
  /\ Enter("reverse", Args(f, l, NoPos, NoPos, NoPos, "none"))
  /\ StartCall(f, l)
  /\ pc' = "reverse_while"
  /\ UNCHANGED <<mem, first2, d_first, it, min_it, max_it, result, ret>>

CallReverse(f, l) ==
  /\ pc = "idle"
  /\ StartReverse(f, l)

\* reverse(first, last) applied again to the range just reversed.
CallReverseAgain ==
  /\ pc = "done" /\ op = "reverse" /\ hist = <<>>
  /\ StartReverse(arg.first, arg.last)

\* (mutant) the swap is not followed by ++first.
ReverseStep_noAdvance ==
  /\ pc = "reverse_while"
  /\ IF first < last
       THEN /\ last' = last - 1
            /\ IF first # last - 1
                 THEN /\ mem' = Swap(mem, first, last - 1)
                      /\ reads' = reads \cup {first, last - 1}
                      /\ writes' = writes \cup {first, last - 1}
                      /\ swaps' = swaps + 1
                      /\ UNCHANGED first
                 ELSE UNCHANGED <<mem, reads, writes, swaps, first>>
            /\ UNCHANGED <<pc, ret>>
       ELSE /\ ret' = "void"
            /\ pc' = "done"
            /\ UNCHANGED <<mem, first, last, reads, writes, swaps>>
  /\ UNCHANGED <<orig, entry, hist, op, arg, first2, d_first, it, min_it, max_it,
                 result, evals, reads2>>

ReverseStep ==
  /\ pc = "reverse_while"
  /\ IF first < last
       THEN /\ last' = last - 1
            /\ IF first # last - 1
                 THEN /\ mem' = Swap(mem, first, last - 1)
                      /\ reads' = reads \cup {first, last - 1}
                      /\ writes' = writes \cup {first, last - 1}
                      /\ swaps' = swaps + 1
                      /\ first' = first + 1
                 ELSE UNCHANGED <<mem, reads, writes, swaps, first>>
            /\ UNCHANGED <<pc, ret>>
       ELSE /\ ret' = "void"
            /\ pc' = "done"
            /\ UNCHANGED <<mem, first, last, reads, writes, swaps>>
  /\ UNCHANGED <<orig, entry, hist, op, arg, first2, d_first, it, min_it, max_it,
                 result, evals, reads2>>

\* ------------------------------------------------------------------ copy
CallCopy(f, l, d) ==
  /\ pc = "idle"
  /\ d + (l - f) <= End
  /\ Enter("copy", Args(f, l, NoPos, NoPos, d, "none"))
  /\ StartCall(f, l)
  /\ d_first' = d
  /\ pc' = "copy_while"
  /\ UNCHANGED <<mem, first2, it, min_it, max_it, result, ret>>

\* (mutant) the destination iterator is not advanced.
CopyStep_noDestAdvance ==
  /\ pc = "copy_while"
  /\ IF first # last
       THEN /\ mem' = [mem EXCEPT ![d_first] = mem[first]]
            /\ reads' = reads \cup {first}
            /\ writes' = writes \cup {d_first}
            /\ first' = first + 1
            /\ UNCHANGED <<d_first, pc, ret>>
       ELSE /\ ret' = d_first
            /\ pc' = "done"
            /\ UNCHANGED <<mem, reads, writes, first, d_first>>
  /\ UNCHANGED <<orig, entry, hist, op, arg, last, first2, it, min_it, max_it,
                 result, evals, reads2, swaps>>

CopyStep ==
  /\ pc = "copy_while"
  /\ IF first # last
       THEN /\ mem' = [mem EXCEPT ![d_first] = mem[first]]
            /\ reads' = reads \cup {first}
            /\ writes' = writes \cup {d_first}
            /\ first' = first + 1
            /\ d_first' = d_first + 1
            /\ UNCHANGED <<pc, ret>>
       ELSE /\ ret' = d_first
            /\ pc' = "done"
            /\ UNCHANGED <<mem, reads, writes, first, d_first>>
  /\ UNCHANGED <<orig, entry, hist, op, arg, last, first2, it, min_it, max_it,
                 result, evals, reads2, swaps>>

\* --------------------------------------------------------------- find_if
CallFindIf(f, l, pr) ==
  /\ pc = "idle"
  /\ Enter("find_if", Args(f, l, NoPos, NoPos, NoPos, pr))
  /\ StartCall(f, l)
  /\ pc' = "find_if_while"
  /\ UNCHANGED <<mem, first2, d_first, it, min_it, max_it, result, ret>>

\* (mutant) the iterator is advanced before it is returned.
FindIfStep_offByOne ==
  /\ pc = "find_if_while"
  /\ IF first # last
       THEN /\ evals' = Append(evals, first)
            /\ reads' = reads \cup {first}
            /\ first' = first + 1
            /\ IF p(arg.f, mem[first])
                 THEN ret' = first + 1 /\ pc' = "done"
                 ELSE UNCHANGED <<pc, ret>>
       ELSE /\ ret' = last
            /\ pc' = "done"
            /\ UNCHANGED <<first, evals, reads>>
  /\ UNCHANGED <<mem, orig, entry, hist, op, arg, last, first2, d_first, it,
                 min_it, max_it, result, reads2, writes, swaps>>

FindIfStep ==
  /\ pc = "find_if_while"
  /\ IF first # last
       THEN /\ evals' = Append(evals, first)
            /\ reads' = reads \cup {first}
            /\ IF p(arg.f, mem[first])
                 THEN ret' = first /\ pc' = "done" /\ UNCHANGED first
                 ELSE first' = first + 1 /\ UNCHANGED <<pc, ret>>
       ELSE /\ ret' = last
            /\ pc' = "done"
            /\ UNCHANGED <<first, evals, reads>>
  /\ UNCHANGED <<mem, orig, entry, hist, op, arg, last, first2, d_first, it,
                 min_it, max_it, result, reads2, writes, swaps>>

\* ---------------------------------------------------------------- all_of
CallAllOf(f, l, pr) ==
  /\ pc = "idle"
  /\ Enter("all_of", Args(f, l, NoPos, NoPos, NoPos, pr))
  /\ StartCall(f, l)
  /\ pc' = "all_of_while"
  /\ UNCHANGED <<mem, first2, d_first, it, min_it, max_it, result, ret>>

AllOfStep ==
  /\ pc = "all_of_while"
  /\ IF first # last
       THEN /\ evals' = Append(evals, first)
            /\ reads' = reads \cup {first}
            /\ IF ~p(arg.f, mem[first])
                 THEN ret' = FALSE /\ pc' = "done" /\ UNCHANGED first
                 ELSE first' = first + 1 /\ UNCHANGED <<pc, ret>>
       ELSE /\ ret' = TRUE
            /\ pc' = "done"
            /\ UNCHANGED <<first, evals, reads>>
  /\ UNCHANGED <<mem, orig, entry, hist, op, arg, last, first2, d_first, it,
                 min_it, max_it, result, reads2, writes, swaps>>

\* ---------------------------------------------------------------- any_of
CallAnyOf(f, l, pr) ==
  /\ pc = "idle"
  /\ Enter("any_of", Args(f, l, NoPos, NoPos, NoPos, pr))
  /\ StartCall(f, l)
  /\ pc' = "any_of_while"
  /\ UNCHANGED <<mem, first2, d_first, it, min_it, max_it, result, ret>>

AnyOfStep ==
  /\ pc = "any_of_while"
  /\ IF first # last
       THEN /\ evals' = Append(evals, first)
            /\ reads' = reads \cup {first}
            /\ IF p(arg.f, mem[first])
                 THEN ret' = TRUE /\ pc' = "done" /\ UNCHANGED first
                 ELSE first' = first + 1 /\ UNCHANGED <<pc, ret>>
       ELSE /\ ret' = FALSE
            /\ pc' = "done"
            /\ UNCHANGED <<first, evals, reads>>
  /\ UNCHANGED <<mem, orig, entry, hist, op, arg, last, first2, d_first, it,
                 min_it, max_it, result, reads2, writes, swaps>>

\* --------------------------------------------------------------- none_of
CallNoneOf(f, l, pr) ==
  /\ pc = "idle"
  /\ Enter("none_of", Args(f, l, NoPos, NoPos, NoPos, pr))
  /\ StartCall(f, l)
  /\ it' = f
  /\ pc' = "none_of_for"
  /\ UNCHANGED <<mem, first2, d_first, min_it, max_it, result, ret>>

\* (mutant) none_of with the results of any_of.
NoneOfStep_asAnyOf ==
  /\ pc = "none_of_for"
  /\ IF it # last
       THEN /\ evals' = Append(evals, it)
            /\ reads' = reads \cup {it}
            /\ IF p(arg.f, mem[it])
                 THEN ret' = TRUE /\ pc' = "done" /\ UNCHANGED it
                 ELSE it' = it + 1 /\ UNCHANGED <<pc, ret>>
       ELSE /\ ret' = FALSE
            /\ pc' = "done"
            /\ UNCHANGED <<it, evals, reads>>
  /\ UNCHANGED <<mem, orig, entry, hist, op, arg, first, last, first2, d_first,
                 min_it, max_it, result, reads2, writes, swaps>>

NoneOfStep ==
  /\ pc = "none_of_for"
  /\ IF it # last
       THEN /\ evals' = Append(evals, it)
            /\ reads' = reads \cup {it}
            /\ IF p(arg.f, mem[it])
                 THEN ret' = FALSE /\ pc' = "done" /\ UNCHANGED it
                 ELSE it' = it + 1 /\ UNCHANGED <<pc, ret>>
       ELSE /\ ret' = TRUE
            /\ pc' = "done"
            /\ UNCHANGED <<it, evals, reads>>
  /\ UNCHANGED <<mem, orig, entry, hist, op, arg, first, last, first2, d_first,
                 min_it, max_it, result, reads2, writes, swaps>>

\* ------------------------------------------ equal (first1, last1, first2)
StartEqual3(f, l, f2, e) ==
  /\ Enter("equal3", Args(f, l, f2, NoPos, NoPos, e))
  /\ StartCall(f, l)
  /\ first2' = f2
  /\ pc' = "equal3_while"
  /\ UNCHANGED <<mem, d_first, it, min_it, max_it, result, ret>>

\* The caller guarantees that range 2 has at least last1 - first1 elements.
CallEqual3(f, l, f2, e) ==
  /\ pc = "idle"
  /\ f2 + (l - f) <= End
  /\ StartEqual3(f, l, f2, e)

\* equal(first, last, d_first, eq) right after copy(first, last, d_first).
CallEqualAfterCopy(e) ==
  /\ pc = "done" /\ op = "copy"
  /\ StartEqual3(arg.first, arg.last, arg.d_first, e)

Equal3Step ==
  /\ pc = "equal3_while"
  /\ IF first # last
       THEN /\ reads' = reads \cup {first}
            /\ reads2' = reads2 \cup {first2}
            /\ IF ~eq(arg.f, mem[first], mem[first2])
                 THEN ret' = FALSE /\ pc' = "done" /\ UNCHANGED <<first, first2>>
                 ELSE /\ first' = first + 1
                      /\ first2' = first2 + 1
                      /\ UNCHANGED <<pc, ret>>
       ELSE /\ ret' = TRUE
            /\ pc' = "done"
            /\ UNCHANGED <<first, first2, reads, reads2>>
  /\ UNCHANGED <<mem, orig, entry, hist, op, arg, last, d_first, it, min_it,
                 max_it, result, evals, writes, swaps>>

\* ----------------------------------- equal (first1, last1, first2, last2)
CallEqual4(f, l, f2, l2, e) ==
  /\ pc = "idle"
  /\ Enter("equal4", Args(f, l, f2, l2, NoPos, e))
  /\ StartCall(f, l)
  /\ first2' = f2
  /\ pc' = "equal4_while"
  /\ UNCHANGED <<mem, d_first, it, min_it, max_it, result, ret>>

\* What *pos may yield: the element, or anything once pos is outside the
\* storage (the read is undefined).
Deref(pos) == IF pos \in DOMAIN mem THEN {mem[pos]} ELSE Vals

Equal4Step ==
  /\ pc = "equal4_while"
  /\ IF first # last
       THEN /\ reads' = reads \cup {first}
            /\ reads2' = reads2 \cup {first2}
            /\ \E v2 \in Deref(first2) :
                 IF ~eq(arg.f, mem[first], v2)
                   THEN ret' = FALSE /\ pc' = "done" /\ UNCHANGED <<first, first2>>
                   ELSE /\ first' = first + 1
                        /\ first2' = first2 + 1
                        /\ UNCHANGED <<pc, ret>>
       ELSE /\ ret' = TRUE
            /\ pc' = "done"
            /\ UNCHANGED <<first, first2, reads, reads2>>
  /\ UNCHANGED <<mem, orig, entry, hist, op, arg, last, d_first, it, min_it,
                 max_it, result, evals, writes, swaps>>

\* The undefined read of *first2 outside the storage may also fault.
Equal4Fault ==
  /\ pc = "equal4_while"
  /\ first # last
  /\ first2 \notin DOMAIN mem
  /\ reads' = reads \cup {first}
  /\ reads2' = reads2 \cup {first2}
  /\ pc' = "crashed"
  /\ UNCHANGED <<mem, orig, entry, hist, op, arg, locals, ret, evals, writes, swaps>>

\* ---------------------------------------------------------------- unique
CallUnique(f, l, e) ==
  /\ pc = "idle"
  /\ Enter("unique", Args(f, l, NoPos, NoPos, NoPos, e))
  /\ StartCall(f, l)
  /\ UNCHANGED <<mem, first2, d_first, it, min_it, max_it>>
  /\ IF f = l
       THEN ret' = f /\ pc' = "done" /\ UNCHANGED result
       ELSE result' = f /\ pc' = "unique_while" /\ UNCHANGED ret

UniqueStep ==
  /\ pc = "unique_while"
  /\ first' = first + 1
  /\ IF first + 1 # last
       THEN /\ reads' = reads \cup {result, first + 1}
            /\ IF eq(arg.f, mem[result], mem[first + 1])
                 THEN /\ mem' = [mem EXCEPT ![result] = mem[first + 1]]
                      /\ writes' = writes \cup {result}
                 ELSE UNCHANGED <<mem, writes>>
            /\ UNCHANGED <<pc, ret>>
       ELSE /\ ret' = result
            /\ pc' = "done"
            /\ UNCHANGED <<mem, reads, writes>>
  /\ UNCHANGED <<orig, entry, hist, op, arg, last, first2, d_first, it, min_it,
                 max_it, result, evals, reads2, swaps>>

\* ------------------------------------------------------------- partition
CallPartition(f, l, pr) ==
  /\ pc = "idle"
  /\ Enter("partition", Args(f, l, NoPos, NoPos, NoPos, pr))
  /\ StartCall(f, l)
  /\ pc' = "partition_while"
  /\ UNCHANGED <<mem, first2, d_first, it, min_it, max_it, result, ret>>

\* while(first != last) ... return first;
PartitionWhile ==
  /\ pc = "partition_while"
  /\ IF first # last
       THEN pc' = "partition_scan_first" /\ UNCHANGED ret
       ELSE ret' = first /\ pc' = "done"
  /\ UNCHANGED <<mem, orig, entry, hist, op, arg, locals, logs>>

\* while(p(*first)){ if(++first == last) return first; }
PartitionScanFirst ==
  /\ pc = "partition_scan_first"
  /\ evals' = Append(evals, first)
  /\ reads' = reads \cup {first}
  /\ IF p(arg.f, mem[first])
       THEN /\ first' = first + 1
            /\ IF first + 1 = last
                 THEN ret' = first + 1 /\ pc' = "done"
                 ELSE UNCHANGED <<pc, ret>>
       ELSE /\ pc' = "partition_scan_last"
            /\ UNCHANGED <<first, ret>>
  /\ UNCHANGED <<mem, orig, entry, hist, op, arg, last, first2, d_first, it,
                 min_it, max_it, result, reads2, writes, swaps>>

\* (mutant) the backward scan stops on p(*last) false instead of true.
PartitionScanLast_negated ==
  /\ pc = "partition_scan_last"
  /\ last' = last - 1
  /\ IF last - 1 = first
       THEN /\ ret' = first
            /\ pc' = "done"
            /\ UNCHANGED <<evals, reads>>
       ELSE /\ evals' = Append(evals, last - 1)
            /\ reads' = reads \cup {last - 1}
            /\ pc' = IF p(arg.f, mem[last - 1])
                       THEN "partition_scan_last" ELSE "partition_swap"
            /\ UNCHANGED ret
  /\ UNCHANGED <<mem, orig, entry, hist, op, arg, first, first2, d_first, it,
                 min_it, max_it, result, reads2, writes, swaps>>

\* do{ if(--last == first) return first; } while(!p(*last));
PartitionScanLast ==
  /\ pc = "partition_scan_last"
  /\ last' = last - 1
  /\ IF last - 1 = first
       THEN /\ ret' = first
            /\ pc' = "done"
            /\ UNCHANGED <<evals, reads>>
       ELSE /\ evals' = Append(evals, last - 1)
            /\ reads' = reads \cup {last - 1}
            /\ pc' = IF ~p(arg.f, mem[last - 1])
                       THEN "partition_scan_last" ELSE "partition_swap"
            /\ UNCHANGED ret
  /\ UNCHANGED <<mem, orig, entry, hist, op, arg, first, first2, d_first, it,
                 min_it, max_it, result, reads2, writes, swaps>>

\* std::iter_swap(first++, last);
PartitionSwap ==
  /\ pc = "partition_swap"
  /\ mem' = Swap(mem, first, last)
  /\ reads' = reads \cup {first, last}
  /\ writes' = writes \cup {first, last}
  /\ swaps' = swaps + 1
  /\ first' = first + 1
  /\ pc' = "partition_while"
  /\ UNCHANGED <<orig, entry, hist, op, arg, last, first2, d_first, it, min_it,
                 max_it, result, ret, evals, reads2>>

\* ------------------------------------------------------------------ next
\* A caller may pass any range [f, l) of the storage.
NextMinmax ==
  \/ \E f \in Positions : \E l \in f..End : \E c \in Cmps : CallMinmax(f, l, c)
  \/ MinmaxStep

NextReverse ==
  \/ \E f \in Positions : \E l \in f..End : CallReverse(f, l)
  \/ CallReverseAgain
  \/ ReverseStep

NextCopy ==
  \/ \E f \in Positions : \E l \in f..End : \E d \in Positions : CallCopy(f, l, d)
  \/ CopyStep
  \/ \E e \in Eqs : CallEqualAfterCopy(e)
  \/ Equal3Step

NextEqual3 ==
  \E f \in Positions : \E l \in f..End : \E f2 \in Positions : \E e \in Eqs :
    CallEqual3(f, l, f2, e)

NextFindIf ==
  \/ \E f \in Positions : \E l \in f..End : \E pr \in Preds : CallFindIf(f, l, pr)
  \/ FindIfStep

NextQuantifiers ==
  \/ \E f \in Positions : \E l \in f..End : \E pr \in Preds : CallAllOf(f, l, pr)
  \/ AllOfStep
  \/ \E f \in Positions : \E l \in f..End : \E pr \in Preds : CallAnyOf(f, l, pr)
  \/ AnyOfStep
  \/ \E f \in Positions : \E l \in f..End : \E pr \in Preds : CallNoneOf(f, l, pr)
  \/ NoneOfStep

NextEqual4 ==
  \/ \E f \in Positions : \E l \in f..End : \E f2 \in Positions : \E l2 \in f2..End :
       \E e \in Eqs : CallEqual4(f, l, f2, l2, e)
  \/ Equal4Step
  \/ Equal4Fault

NextUnique ==
  \/ \E f \in Positions : \E l \in f..End : \E e \in Eqs : CallUnique(f, l, e)
  \/ UniqueStep

NextPartition ==
  \/ \E f \in Positions : \E l \in f..End : \E pr \in Preds : CallPartition(f, l, pr)
  \/ PartitionWhile
  \/ PartitionScanFirst
  \/ PartitionScanLast
  \/ PartitionSwap

Next ==
  \/ NextMinmax
  \/ NextReverse
  \/ NextCopy
  \/ NextEqual3
  \/ NextFindIf
  \/ NextQuantifiers
  \/ NextEqual4
  \/ NextUnique
  \/ NextPartition

\* The whole library, and each algorithm on its own.
Spec            == Init /\ [][Next]_vars
SpecMinmax      == Init /\ [][NextMinmax]_vars
SpecReverse     == Init /\ [][NextReverse]_vars
SpecCopy        == Init /\ [][NextCopy]_vars
SpecFindIf      == Init /\ [][NextFindIf]_vars
SpecQuantifiers == Init /\ [][NextQuantifiers]_vars
SpecEqual4      == Init /\ [][NextEqual4]_vars
SpecUnique      == Init /\ [][NextUnique]_vars
SpecPartition   == Init /\ [][NextPartition]_vars

\* ============================================================ properties
Done(name) == pc = "done" /\ op = name

\* The positions of the range the call was given.
Range == arg.first..(arg.last - 1)
N == arg.last - arg.first

\* a and b are equivalent under the comparator of the call.
Equiv(a, b) == ~cmp(arg.f, a, b) /\ ~cmp(arg.f, b, a)

\* ---- minmax
\* C3: for a non-empty range minmax returns positions (m, M) inside
\* [begin, end) such that no element compares less than *m and no element
\* compares greater than *M; for an empty range it returns (end, end).
C3_MinmaxExtremes ==
  Done("minmax") =>
    IF arg.first = arg.last
      THEN ret = <<arg.last, arg.last>>
      ELSE /\ ret[1] \in Range
           /\ ret[2] \in Range
           /\ \A j \in Range : ~cmp(arg.f, entry[j], entry[ret[1]])
           /\ \A j \in Range : ~cmp(arg.f, entry[ret[2]], entry[j])

C3_Witness ==
  /\ Done("minmax")
  /\ N >= 3
  /\ ret[1] # ret[2]
  /\ ret[1] # arg.first
  /\ ret[2] # arg.first

\* C4 as stated: ties are broken earliest-wins for both extremes.
C4_EarliestBoth ==
  (Done("minmax") /\ arg.first # arg.last) =>
    /\ \A j \in Range : Equiv(entry[j], entry[ret[1]]) => ret[1] <= j
    /\ \A j \in Range : Equiv(entry[j], entry[ret[2]]) => ret[2] <= j

\* C4 (amended): among the elements equivalent to the minimum the smallest
\* position is returned, among the elements equivalent to the maximum the
\* largest position is returned.
C4_EarliestMinLatestMax ==
  (Done("minmax") /\ arg.first # arg.last) =>
    /\ \A j \in Range : Equiv(entry[j], entry[ret[1]]) => ret[1] <= j
    /\ \A j \in Range : Equiv(entry[j], entry[ret[2]]) => ret[2] >= j

C4_Witness ==
  /\ Done("minmax")
  /\ \E j \in Range : j # ret[1] /\ Equiv(entry[j], entry[ret[1]])
  /\ \E j \in Range : j # ret[2] /\ Equiv(entry[j], entry[ret[2]])
  /\ ~Equiv(entry[ret[1]], entry[ret[2]])

\* ---- reverse
\* C6: reverse moves the element at index i of a range of n elements to
\* index n-1-i with exactly n \div 2 swaps (none, and no change, for n <= 1),
\* touching nothing outside the range; applied twice it restores the storage.
C6_ReverseInvolution ==
  Done("reverse") =>
    /\ \A i \in Range : mem[i] = entry[arg.first + arg.last - 1 - i]
    /\ \A i \in DOMAIN mem \ Range : mem[i] = entry[i]
    /\ swaps = N \div 2
    /\ (N <= 1 => mem = entry /\ writes = {})
    /\ (hist # <<>> => mem = orig)

C6_Witness ==
  /\ Done("reverse")
  /\ hist # <<>>
  /\ N >= 3
  /\ entry # mem

\* ---- copy
NonOverlap(a) ==
  \/ a.d_first + (a.last - a.first) <= a.first
  \/ a.last <= a.d_first

Dest == arg.d_first..(arg.d_first + N - 1)

\* C7: a copy to a non-overlapping destination writes the n source elements
\* to dest..dest+n in order, changes nothing else, returns dest+n, and
\* equal(begin, end, dest, ==) called next returns true.
C7_CopyThenEqual ==
  /\ (Done("copy") /\ NonOverlap(arg)) =>
       /\ \A k \in 0..(N - 1) : mem[arg.d_first + k] = entry[arg.first + k]
       /\ \A i \in DOMAIN mem \ Dest : mem[i] = entry[i]
       /\ writes = Dest
       /\ ret = arg.d_first + N
  /\ (Done("equal3") /\ hist # <<>> /\ NonOverlap(hist[1].arg) /\ arg.f = "eq") =>
       ret = TRUE

C7_Witness ==
  /\ Done("equal3")
  /\ hist # <<>>
  /\ NonOverlap(hist[1].arg)
  /\ arg.f = "eq"
  /\ N >= 2
  /\ \A k \in 0..(N - 1) : orig[arg.first2 + k] # orig[arg.first + k]

\* ---- find_if
Matches == {i \in Range : p(arg.f, entry[i])}

Least(S) == CHOOSE i \in S : \A j \in S : i <= j

\* The positions from..to in increasing order.
Run(from, to) == [k \in 1..(to - from + 1) |-> from + k - 1]

\* C9: find_if returns end when no element satisfies p, otherwise the
\* position of the first element that does.
C9_FindIfFirstMatch ==
  Done("find_if") =>
    IF Matches = {}
      THEN ret = arg.last
      ELSE /\ ret \in Range
           /\ p(arg.f, entry[ret])
           /\ \A j \in arg.first..(ret - 1) : ~p(arg.f, entry[j])

C9_Witness ==
  /\ Done("find_if")
  /\ ret > arg.first
  /\ ret < arg.last - 1
  /\ p(arg.f, entry[ret + 1])

\* ---- all_of, any_of, none_of
NonMatches == Range \ Matches

\* The positions the predicate must have been evaluated on when D holds
\* the deciding positions: forward up to and including the first of them,
\* the whole range when there is none.
EvalsUpTo(D) ==
  Run(arg.first, IF D = {} THEN arg.last - 1 ELSE Least(D))

\* C8: all_of / any_of / none_of return "every" / "some" / "no" element
\* satisfies p (true / false / true on an empty range) and evaluate p in
\* forward order up to and including the first deciding element only.
C8_Quantifiers ==
  /\ Done("all_of") =>
       /\ ret = (NonMatches = {})
       /\ evals = EvalsUpTo(NonMatches)
  /\ Done("any_of") =>
       /\ ret = (Matches # {})
       /\ evals = EvalsUpTo(Matches)
  /\ Done("none_of") =>
       /\ ret = (Matches = {})
       /\ evals = EvalsUpTo(Matches)

C8_Witness ==
  /\ Done("none_of")
  /\ ret = FALSE
  /\ Len(evals) >= 2
  /\ Len(evals) < N

\* ---- partition
Count(s, v) == Cardinality({i \in Range : s[i] = v})

\* C5: partition leaves a permutation of the range in which every element
\* satisfying p precedes every element that does not, and returns
\* begin + (number of elements satisfying p).
C5_Partition ==
  Done("partition") =>
    /\ \A v \in Vals : Count(mem, v) = Count(entry, v)
    /\ \A i \in DOMAIN mem \ Range : mem[i] = entry[i]
    /\ ret = arg.first + Cardinality(Matches)
    /\ \A i \in Range : p(arg.f, mem[i]) <=> i < ret

C5_Witness ==
  /\ Done("partition")
  /\ swaps >= 2
  /\ ret # arg.first
  /\ ret # arg.last

\* ---- unique
\* The positions that start a maximal run of adjacent eq-equal elements.
RunStarts ==
  {i \in Range : i = arg.first \/ ~eq(arg.f, entry[i - 1], entry[i])}

\* The k-th of them, and the positions of the run it starts.
KthStart(k) ==
  CHOOSE i \in RunStarts : Cardinality({j \in RunStarts : j < i}) = k - 1

RunOf(i) ==
  {j \in Range : j >= i /\ \A m \in (i + 1)..j : m \notin RunStarts}

\* C1: unique leaves in [begin, returned position) one representative of
\* every maximal run, in order, and returns begin + (number of runs).
C1_UniqueRuns ==
  Done("unique") =>
    /\ ret = arg.first + Cardinality(RunStarts)
    /\ \A k \in 1..Cardinality(RunStarts) :
         \E j \in RunOf(KthStart(k)) : mem[arg.first + k - 1] = entry[j]

\* ---- equal on two bounded ranges
N2 == arg.last2 - arg.first2

\* C2: the two-range equal returns true only if the ranges have the same
\* length and every pair of elements satisfies eq.
C2_Equal4LockStep ==
  (Done("equal4") /\ ret = TRUE) =>
    /\ N = N2
    /\ \A k \in 0..(N - 1) : eq(arg.f, entry[arg.first + k], entry[arg.first2 + k])

\* ---- safety
InPlace == {"minmax", "find_if", "all_of", "any_of", "none_of", "unique",
            "reverse", "partition", "equal4"}

\* C10: no position at or past the end of a range the call was given is
\* dereferenced, and every write is inside [begin, end).
C10_NoDerefPastEnd ==
  op \in InPlace =>
    /\ \A q \in reads : q < arg.last
    /\ \A q \in reads2 : q < arg.last2
    /\ writes \subseteq Range

====
